---- MODULE Spec2Model ----
(***************************************************************************)
(* Model of langchain/client/runner_utils.py: the batch runners            *)
(* run_on_examples (sequential) and arun_on_examples (concurrent, through  *)
(* _gather_with_concurrency), the per-example invokers run_llm_or_chain    *)
(* and _arun_llm_or_chain, and the tracer pool.                            *)
(*                                                                         *)
(* One behaviour runs run_on_examples and then arun_on_examples on the     *)
(* same arguments, so that the two results maps can be compared.           *)
(*                                                                         *)
(* The concurrent run is an asyncio program: coroutines are interleaved    *)
(* only at awaits that really suspend.  current_task is the coroutine      *)
(* that owns the event loop (0: the loop is free to resume any coroutine   *)
(* that is ready).                                                         *)
(***************************************************************************)
EXTENDS Integers, Sequences, FiniteSets, TLC

\* ---------------------------------------------------------------- bounds
MaxItems == 2
MaxReps == 2
MaxConc == 2
MaxFaults == 1

\* None, as the value of example_id and of a null tracer
NoneId == 0

VARIABLES
    \* the arguments of the batch run
    examples,              \* sequence of example ids (Example.id)
    llm_or_chain_factory,  \* the kind of object passed as the task
    concurrency_level,
    num_repetitions,
    session_name,          \* "None", "" or "s"
    fails,                 \* the task: the <<example index, attempt>> it raises on
    \* run_on_examples
    seq_pc,
    seq_i,                 \* examples processed so far
    seq_results,
    seq_tracer_example_id,
    seq_eval_example_id,
    seq_flushes,           \* wait_for_futures calls: <<tracer, evaluation handler>>
    \* arun_on_examples / _gather_with_concurrency
    conc_pc,
    semaphore,             \* asyncio.Semaphore._value
    tracer_queue,          \* sequence of tracer slots (1..n)
    tracer_is_none,        \* TRUE when _tracer_initializer returned None
    tracer_example_id,     \* slot -> LangChainTracer.example_id
    tracer_flushes,        \* slot -> wait_for_futures calls
    eval_example_id,       \* evaluation_handler.example_id
    eval_flushes,
    results,
    num_processed,         \* job_state["num_processed"]
    current_task,
    \* one coroutine run_coroutine_with_semaphore(process_example(e)) per example
    pc,
    tracer,                \* the slot the coroutine holds (0: none)
    previous_example_ids,  \* local of _arun_llm_or_chain
    outputs,               \* local of _arun_llm_or_chain
    attempt,               \* passes of the loop of _arun_llm_or_chain started
    exc,                   \* TRUE while an exception propagates out of the coroutine
    \* the invocations of the task, in both runs
    chain,                 \* local of _arun_llm_or_chain: the chain of this pass
    chains_made,           \* the chains llm_or_chain_factory() has returned
    chain_calls,           \* <<chain, attempt>>: the attempt has invoked the chain
    in_flight,             \* <<example index, attempt>>: awaited invocations
    \* one call of a function of the input adapter or of a model invoker
    llm,                   \* the kind of object passed as llm
    inputs,                \* example.inputs
    callbacks,             \* "None" or the handle of a list of handlers
    tags,                  \* "None" or the handle of a list of tags
    generate_raises,       \* the model: TRUE when generate / agenerate raises
    called,                \* the function that has been called ("": none yet)
    outcome                \* what it raised or returned, and its generate calls

args == <<examples, llm_or_chain_factory, concurrency_level, num_repetitions,
          session_name, fails>>
seqvars == <<seq_pc, seq_i, seq_results, seq_tracer_example_id,
             seq_eval_example_id, seq_flushes>>
poolvars == <<semaphore, tracer_queue, tracer_is_none, tracer_example_id,
              tracer_flushes>>
unitvars == <<pc, tracer, previous_example_ids, outputs, attempt, exc>>
concvars == <<conc_pc, eval_example_id, eval_flushes, results, num_processed,
              current_task>>
invokevars == <<chain, chains_made, chain_calls, in_flight>>
adaptervars == <<llm, inputs, callbacks, tags, generate_raises, called, outcome>>
vars == <<args, seqvars, poolvars, unitvars, concvars, invokevars, adaptervars>>

\* ------------------------------------------------------------- the inputs
TaskKinds == {"BaseLLM", "BaseChatModel", "chain_factory", "other_lm", "not_callable"}
SessionNames == {"None", "", "s"}

\* isinstance(llm_or_chain_factory, BaseLanguageModel)
IsBaseLanguageModel(t) == t \in {"BaseLLM", "BaseChatModel", "other_lm"}

\* a task the invokers can run: a BaseLLM, a BaseChatModel or a chain factory
Supported(t) == t \in {"BaseLLM", "BaseChatModel", "chain_factory"}

\* Sequences of example ids of length 0..MaxItems, one per pattern of equal
\* ids: the first example has id 1 and every later one an id already used or
\* the next unused one.
ExampleSeqs ==
    UNION { { s \in [1..n -> 1..MaxItems] :
                \A j \in 1..n :
                    s[j] <= 1 + Cardinality({ s[h] : h \in 1..(j-1) }) }
            : n \in 0..MaxItems }

Units == 1..Len(examples)

DistinctIds == \A a, b \in Units : a # b => examples[a] # examples[b]

\* str(example.id)
Str(id) == ToString(id)

\* ---------------------------------------------------------- results maps
EmptyMap == [k \in {} |-> <<>>]

\* SetItem that rebinds the map to the one new entry
SetItem_Rebind(map, key, value) == [k \in {key} |-> value]

\* results[key] = value
SetItem(map, key, value) ==
    [k \in (DOMAIN map) \cup {key} |-> IF k = key THEN value ELSE map[k]]

\* ------------------------------------------------------ one invocation
\* The attempt raises an Exception: the task itself fails, or the task is not
\* a BaseLLM/BaseChatModel (ValueError of _arun_llm / run_llm) or not a
\* callable (TypeError of llm_or_chain_factory()).
Raises(task, i, k) == ~Supported(task) \/ <<i, k>> \in fails

\* str(e)
ErrorMessage(task) ==
    IF IsBaseLanguageModel(task) /\ ~Supported(task) THEN "Unsupported LLM type"
    ELSE IF ~Supported(task) THEN "object is not callable"
    ELSE "task failed"

\* The attempt reaches an await that suspends the coroutine (agenerate, acall);
\* an unsupported task raises before any await.
Suspends(task) == Supported(task)

\* The entry one pass of the repetition loop appends: the output of attempt k
\* on example i, or {"Error": str(e)}.
AttemptOutput(task, i, k) ==
    IF Raises(task, i, k)
    THEN [Error |-> ErrorMessage(task)]
    ELSE [Output |-> <<i, k>>]

\* AppendOutput that appends nothing for an attempt that raised
AppendOutput_DropError(outs, task, i, k) ==
    IF Raises(task, i, k) THEN outs ELSE Append(outs, [Output |-> <<i, k>>])

\* AppendOutput that puts the new entry in front
AppendOutput_Prepend(outs, task, i, k) == <<AttemptOutput(task, i, k)>> \o outs

\* outputs.append(output) / except Exception: outputs.append({"Error": str(e)})
AppendOutput(outs, task, i, k) == Append(outs, AttemptOutput(task, i, k))

\* for _ in range(n_repetitions): ... of the blocking invoker, from attempt k
RECURSIVE RepetitionLoop(_, _, _, _, _)
RepetitionLoop(outs, task, i, k, n) ==
    IF k > n THEN outs
    ELSE RepetitionLoop(AppendOutput(outs, task, i, k), task, i, k + 1, n)

\* The chains. llm_or_chain_factory() returns a new chain at every call; a
\* chain is named by the call that made it: <<run, example index, attempt>>,
\* and <<run, 0, 0>> for the call of _get_session_name.
NoChain == <<"", 0, 0>>

\* chain = llm_or_chain_factory()
NewChain(run, u, k) == <<run, u, k>>

\* ChainOfAttempt with the chain made once, in the first pass, and kept
ChainOfAttempt_Once(run, u, k) == NewChain(run, u, 1)

\* the chain pass k of the loop invokes: the one it has just made
ChainOfAttempt(run, u, k) == NewChain(run, u, k)

\* the chains made by _get_session_name: with no session_name given it calls
\* the factory for the class name of the chain
SessionNameChains(run) ==
    IF session_name = "None" /\ llm_or_chain_factory = "chain_factory"
    THEN {NewChain(run, 0, 0)} ELSE {}

\* tracer.example_id = example.id
BoundExampleId(example_id) == example_id

\* RestoredExampleId that leaves the example_id as it is
RestoredExampleId_Keep(previous, current) == current

\* tracer.example_id = example_id, for (example_id, tracer) in
\* zip(previous_example_ids, callbacks)
RestoredExampleId(previous, current) == previous

\* _get_session_name raises: session_name is None and llm_or_chain_factory()
\* is called on an object that is not callable
SessionNameRaises == session_name = "None" /\ llm_or_chain_factory = "not_callable"

\* the name _get_session_name returns: the given one, or
\* "{model_name}-{current_time}"
ResolvedSessionName == IF session_name = "None" THEN "derived" ELSE session_name

\* ------------------------------------------------- the inputs of a model
\* A Python value of an example's inputs: its type, and its text (str, int),
\* its role and text (a message dict, a message) or its items (list).
PyValue(type, role, text, items) ==
    [type |-> type, role |-> role, text |-> text, items |-> items]

PyStr(text) == PyValue("str", "", text, <<>>)
PyInt(text) == PyValue("int", "", text, <<>>)
PyList(items) == PyValue("list", "", "", items)
\* {"type": role, "data": {"content": text}}
MessageDict(role, text) == PyValue("dict", role, text, <<>>)
\* what a function that raised has returned
NoValue == PyValue("", "", "", <<>>)

\* the longest record of inputs
MaxFields == 2

InputKeys == {"prompt", "prompts", "messages", "x", "y"}

InputValues ==
    LET m1 == MessageDict("human", "hi")
        m2 == MessageDict("ai", "yo")
    IN { PyStr("a"), PyInt("5"), m1,
         PyList(<<>>),
         PyList(<<PyStr("a"), PyStr("b")>>),
         PyList(<<PyStr("a"), PyInt("5")>>),
         PyList(<<m1, m2>>),
         PyList(<<PyList(<<m1>>), PyList(<<m2, m1>>)>>),
         PyList(<<PyList(<<m1>>), m2>>) }

\* Dict[str, Any] with at most MaxFields fields
InputRecords ==
    UNION { [keys -> InputValues] :
                keys \in { d \in SUBSET InputKeys : Cardinality(d) <= MaxFields } }

\* isinstance(v, str), isinstance(v, list), isinstance(v, dict)
IsStr(v) == v.type = "str"
IsList(v) == v.type = "list"
IsDict(v) == v.type = "dict"

\* isinstance(v, list) and all(isinstance(i, <type>) for i in v)
IsListOf(v, type) ==
    IsList(v) /\ \A j \in 1..Len(v.items) : v.items[j].type = type

\* next(iter(inputs.values())) of a record with one field
SoleValue(inputs_) == inputs_[CHOOSE key \in DOMAIN inputs_ : TRUE]

\* what a function of the input adapter does: it returns a value or raises
Returned(value) == [raised |-> "", value |-> value]
Raised(exception) == [raised |-> exception, value |-> NoValue]

\* _get_prompts that looks for "prompts" before "prompt"
_get_prompts_PromptsFirst(inputs_) ==
    IF DOMAIN inputs_ = {} THEN Raised("InputFormatError")
    ELSE IF "prompts" \in DOMAIN inputs_ THEN
        IF ~IsListOf(inputs_["prompts"], "str")
        THEN Raised("InputFormatError")
        ELSE Returned(inputs_["prompts"])
    ELSE IF "prompt" \in DOMAIN inputs_ THEN
        IF ~IsStr(inputs_["prompt"])
        THEN Raised("InputFormatError")
        ELSE Returned(PyList(<<inputs_["prompt"]>>))
    ELSE IF Cardinality(DOMAIN inputs_) = 1 THEN
        IF IsStr(SoleValue(inputs_)) THEN Returned(PyList(<<SoleValue(inputs_)>>))
        ELSE IF IsListOf(SoleValue(inputs_), "str") THEN Returned(SoleValue(inputs_))
        ELSE Raised("InputFormatError")
    ELSE Raised("InputFormatError")

\* lines 62-95
_get_prompts(inputs_) ==
    IF DOMAIN inputs_ = {} THEN Raised("InputFormatError")
    ELSE IF "prompt" \in DOMAIN inputs_ THEN
        IF ~IsStr(inputs_["prompt"])
        THEN Raised("InputFormatError")
        ELSE Returned(PyList(<<inputs_["prompt"]>>))
    ELSE IF "prompts" \in DOMAIN inputs_ THEN
        IF ~IsListOf(inputs_["prompts"], "str")
        THEN Raised("InputFormatError")
        ELSE Returned(inputs_["prompts"])
    ELSE IF Cardinality(DOMAIN inputs_) = 1 THEN
        IF IsStr(SoleValue(inputs_)) THEN Returned(PyList(<<SoleValue(inputs_)>>))
        ELSE IF IsListOf(SoleValue(inputs_), "str") THEN Returned(SoleValue(inputs_))
        ELSE Raised("InputFormatError")
    ELSE Raised("InputFormatError")

\* langchain.schema: one typed message per message dict, with its role and
\* its content
Message(role, text) == PyValue("message", role, text, <<>>)

messages_from_dict(batch) ==
    PyList([j \in 1..Len(batch.items) |->
                Message(batch.items[j].role, batch.items[j].text)])

\* [messages_from_dict(batch) for batch in raw_messages]
MessagesOfBatches(raw_messages) ==
    PyList([j \in 1..Len(raw_messages) |-> messages_from_dict(raw_messages[j])])

\* _get_messages that takes each dict of a list of dicts as a batch of its own
_get_messages_BatchPerDict(inputs_) ==
    IF DOMAIN inputs_ = {} THEN Raised("InputFormatError")
    ELSE IF "messages" \notin DOMAIN inputs_ /\ Cardinality(DOMAIN inputs_) # 1
    THEN Raised("InputFormatError")
    ELSE LET single_input == IF "messages" \in DOMAIN inputs_
                             THEN inputs_["messages"] ELSE SoleValue(inputs_)
         IN IF IsListOf(single_input, "dict")
            THEN Returned(MessagesOfBatches(
                     [j \in 1..Len(single_input.items) |->
                          PyList(<<single_input.items[j]>>)]))
            ELSE IF IsListOf(single_input, "list")
            THEN Returned(MessagesOfBatches(single_input.items))
            ELSE Raised("InputFormatError")

\* lines 110-132
_get_messages(inputs_) ==
    IF DOMAIN inputs_ = {} THEN Raised("InputFormatError")
    ELSE IF "messages" \notin DOMAIN inputs_ /\ Cardinality(DOMAIN inputs_) # 1
    THEN Raised("InputFormatError")
    ELSE LET single_input == IF "messages" \in DOMAIN inputs_
                             THEN inputs_["messages"] ELSE SoleValue(inputs_)
         IN IF IsListOf(single_input, "dict")
            THEN Returned(MessagesOfBatches(<<single_input>>))
            ELSE IF IsListOf(single_input, "list")
            THEN Returned(MessagesOfBatches(single_input.items))
            ELSE Raised("InputFormatError")

\* --------------------------------------------------- the model invokers
\* langchain.schema get_buffer_string: the transcript of a message sequence,
\* one line per message, each with the name of its role in front
RoleName(role) == IF role = "human" THEN "Human" ELSE IF role = "ai" THEN "AI" ELSE role

RECURSIVE Transcript(_)
Transcript(messages) ==
    IF messages = <<>> THEN ""
    ELSE LET line == RoleName(Head(messages).role) \o ": " \o Head(messages).text
         IN IF Tail(messages) = <<>> THEN line
            ELSE line \o "\n" \o Transcript(Tail(messages))

get_buffer_string(messages) == PyStr(Transcript(messages.items))

\* [get_buffer_string(messages) for messages in llm_messages]
BufferStrings(llm_messages) ==
    PyList([j \in 1..Len(llm_messages.items) |->
                get_buffer_string(llm_messages.items[j])])

\* langchain.schema HumanMessage(content=prompt)
HumanMessage(prompt) == Message("human", prompt.text)

\* [[HumanMessage(content=prompt)] for prompt in prompts]
ConvertedMessages(prompts) ==
    PyList([j \in 1..Len(prompts.items) |->
                PyList(<<HumanMessage(prompts.items[j])>>)])

\* what a call has done: the exception it raised ("": it returned), the value
\* it returned and the calls of generate / agenerate it has made
Outcome(raised, value, calls) == [raised |-> raised, value |-> value, calls |-> calls]

\* llm.generate(input, callbacks=..., tags=...); an argument that is not
\* passed has its default, None
Generate(input, callbacks_, tags_, raises) ==
    Outcome(IF raises THEN "Exception" ELSE "", NoValue,
            <<[input |-> input, callbacks |-> callbacks_, tags |-> tags_]>>)

\* _arun_llm that does not fall back to the other kind of input
_arun_llm_NoFallback(llm_, inputs_, tags_, callbacks_, raises) ==
    IF llm_ = "BaseLLM" THEN
        LET llm_prompts == _get_prompts(inputs_) IN
        IF llm_prompts.raised = ""
        THEN Generate(llm_prompts.value, callbacks_, tags_, raises)
        ELSE Outcome(llm_prompts.raised, NoValue, <<>>)
    ELSE IF llm_ = "BaseChatModel" THEN
        LET messages == _get_messages(inputs_) IN
        IF messages.raised = ""
        THEN Generate(messages.value, callbacks_, tags_, raises)
        ELSE Outcome(messages.raised, NoValue, <<>>)
    ELSE Outcome("ValueError", NoValue, <<>>)

\* lines 157-183
_arun_llm(llm_, inputs_, tags_, callbacks_, raises) ==
    IF llm_ = "BaseLLM" THEN
        LET llm_prompts == _get_prompts(inputs_) IN
        IF llm_prompts.raised = ""
        THEN Generate(llm_prompts.value, callbacks_, tags_, raises)
        ELSE LET llm_messages == _get_messages(inputs_) IN
             IF llm_messages.raised = ""
             THEN Generate(BufferStrings(llm_messages.value), callbacks_, tags_, raises)
             ELSE Outcome(llm_messages.raised, NoValue, <<>>)
    ELSE IF llm_ = "BaseChatModel" THEN
        LET messages == _get_messages(inputs_) IN
        IF messages.raised = ""
        THEN Generate(messages.value, callbacks_, tags_, raises)
        ELSE LET prompts == _get_prompts(inputs_) IN
             IF prompts.raised = ""
             THEN Generate(ConvertedMessages(prompts.value), callbacks_, tags_, raises)
             ELSE Outcome(prompts.raised, NoValue, <<>>)
    ELSE Outcome("ValueError", NoValue, <<>>)

\* lines 406-428; line 413 passes no tags
run_llm(llm_, inputs_, callbacks_, tags_, raises) ==
    IF llm_ = "BaseLLM" THEN
        LET llm_prompts == _get_prompts(inputs_) IN
        IF llm_prompts.raised = ""
        THEN Generate(llm_prompts.value, callbacks_, tags_, raises)
        ELSE LET llm_messages == _get_messages(inputs_) IN
             IF llm_messages.raised = ""
             THEN Generate(BufferStrings(llm_messages.value), callbacks_, "None", raises)
             ELSE Outcome(llm_messages.raised, NoValue, <<>>)
    ELSE IF llm_ = "BaseChatModel" THEN
        LET messages == _get_messages(inputs_) IN
        IF messages.raised = ""
        THEN Generate(messages.value, callbacks_, tags_, raises)
        ELSE LET prompts == _get_prompts(inputs_) IN
             IF prompts.raised = ""
             THEN Generate(ConvertedMessages(prompts.value), callbacks_, tags_, raises)
             ELSE Outcome(prompts.raised, NoValue, <<>>)
    ELSE Outcome("ValueError", NoValue, <<>>)

\* ------------------------------------------------------------------ Init
\* no function of the input adapter or model invoker is called
NotCalled ==
    /\ llm = "BaseLLM"
    /\ inputs = EmptyMap
    /\ callbacks = "None"
    /\ tags = "None"
    /\ generate_raises = FALSE
    /\ called = ""
    /\ outcome = Outcome("", NoValue, <<>>)

\* no batch run has started
NotStarted ==
    /\ seq_pc = "start"
    /\ seq_i = 0
    /\ seq_results = EmptyMap
    /\ seq_tracer_example_id = NoneId
    /\ seq_eval_example_id = NoneId
    /\ seq_flushes = <<0, 0>>
    /\ conc_pc = "start"
    /\ semaphore = 0
    /\ tracer_queue = <<>>
    /\ tracer_is_none = FALSE
    /\ tracer_example_id = [s \in 1..concurrency_level |-> NoneId]
    /\ tracer_flushes = [s \in 1..concurrency_level |-> 0]
    /\ eval_example_id = NoneId
    /\ eval_flushes = 0
    /\ results = EmptyMap
    /\ num_processed = 0
    /\ current_task = 0
    /\ pc = [u \in 1..Len(examples) |-> "pending"]
    /\ tracer = [u \in 1..Len(examples) |-> 0]
    /\ previous_example_ids =
           [u \in 1..Len(examples) |-> [tracer |-> NoneId, eval |-> NoneId]]
    /\ outputs = [u \in 1..Len(examples) |-> <<>>]
    /\ attempt = [u \in 1..Len(examples) |-> 0]
    /\ exc = [u \in 1..Len(examples) |-> FALSE]
    /\ chain = [u \in 1..Len(examples) |-> NoChain]
    /\ chains_made = {}
    /\ chain_calls = {}
    /\ in_flight = {}

\* the arguments of run_on_examples and arun_on_examples, before the run
Init ==
    /\ examples \in ExampleSeqs
    /\ llm_or_chain_factory \in TaskKinds
    /\ concurrency_level \in 1..MaxConc
    /\ num_repetitions \in 0..MaxReps
    /\ session_name \in SessionNames
    /\ fails \in { f \in SUBSET ((1..Len(examples)) \X (1..num_repetitions)) :
                     /\ Cardinality(f) <= MaxFaults
                     /\ ~Supported(llm_or_chain_factory) => f = {} }
    /\ NotStarted
    /\ NotCalled

\* ------------------------------------------------------- run_on_examples
\* lines 515-523: the session name, the tracer and the evaluation handler
SeqStart ==
    /\ seq_pc = "start"
    /\ seq_pc' = IF SessionNameRaises THEN "raised" ELSE "loop"
    /\ chains_made' = chains_made \cup SessionNameChains("seq")
    /\ UNCHANGED <<seq_i, seq_results, seq_tracer_example_id,
                   seq_eval_example_id, seq_flushes>>
    /\ UNCHANGED <<args, poolvars, unitvars, concvars>>
    /\ UNCHANGED adaptervars
    /\ UNCHANGED <<chain, chain_calls, in_flight>>

\* lines 462-470 of run_llm_or_chain: the invocations of the chain its n
\* passes make, each <<chain, attempt>>; a language model has no chain
run_llm_or_chain_calls(task, i, n) ==
    IF task = "chain_factory"
    THEN { <<ChainOfAttempt("seq", i, k), <<"seq", i, k>>>> : k \in 1..n }
    ELSE {}

\* run_llm_or_chain(example, ...): the tracer's and the handler's example_id
\* once the call has returned, and the outputs it returns
run_llm_or_chain_example_id(previous, example_id) ==
    RestoredExampleId(previous, BoundExampleId(example_id))

\* run_llm_or_chain that stops at the first attempt that raises
RECURSIVE RepetitionLoop_Break(_, _, _, _, _)
RepetitionLoop_Break(outs, task, i, k, n) ==
    IF k > n THEN outs
    ELSE IF Raises(task, i, k) THEN AppendOutput(outs, task, i, k)
    ELSE RepetitionLoop_Break(AppendOutput(outs, task, i, k), task, i, k + 1, n)

run_llm_or_chain_Break(task, i, n) == RepetitionLoop_Break(<<>>, task, i, 1, n)

run_llm_or_chain(task, i, n) == RepetitionLoop(<<>>, task, i, 1, n)

\* one pass of the loop of lines 524-534
SeqItem ==
    /\ seq_pc = "loop"
    /\ seq_i < Len(examples)
    /\ LET i == seq_i + 1 IN
        /\ seq_tracer_example_id' =
               run_llm_or_chain_example_id(seq_tracer_example_id, examples[i])
        /\ seq_eval_example_id' =
               run_llm_or_chain_example_id(seq_eval_example_id, examples[i])
        /\ seq_results' =
               SetItem(seq_results, Str(examples[i]),
                       run_llm_or_chain(llm_or_chain_factory, i, num_repetitions))
        /\ seq_i' = i
        /\ LET calls == run_llm_or_chain_calls(llm_or_chain_factory, i, num_repetitions) IN
            /\ chain_calls' = chain_calls \cup calls
            /\ chains_made' = chains_made \cup { c[1] : c \in calls }
    /\ UNCHANGED <<seq_pc, seq_flushes>>
    /\ UNCHANGED <<args, poolvars, unitvars, concvars>>
    /\ UNCHANGED adaptervars
    /\ UNCHANGED <<chain, in_flight>>

\* lines 535-537
SeqFinish ==
    /\ seq_pc = "loop"
    /\ seq_i = Len(examples)
    /\ seq_flushes' = <<seq_flushes[1] + 1, seq_flushes[2] + 1>>
    /\ seq_pc' = "returned"
    /\ UNCHANGED <<seq_i, seq_results, seq_tracer_example_id, seq_eval_example_id>>
    /\ UNCHANGED <<args, poolvars, unitvars, concvars>>
    /\ UNCHANGED adaptervars
    /\ UNCHANGED invokevars

\* ------------------------------------------------------ arun_on_examples
\* lines 343-350 and 258-263, and the creation of one task per coroutine by
\* asyncio.gather (278-280): the session name, the evaluation handler, the
\* semaphore and the queue of n tracers
ConcStart ==
    /\ conc_pc = "start"
    /\ seq_pc \in {"returned", "raised"}
    /\ IF SessionNameRaises
       THEN /\ conc_pc' = "raised"
            /\ UNCHANGED <<semaphore, tracer_queue, tracer_is_none>>
       ELSE /\ conc_pc' = "gather"
            /\ semaphore' = concurrency_level
            /\ tracer_queue' = [s \in 1..concurrency_level |-> s]
            \* _tracer_initializer: None unless session_name is truthy
            /\ tracer_is_none' = (ResolvedSessionName = "")
    /\ UNCHANGED <<tracer_example_id, tracer_flushes>>
    /\ UNCHANGED <<eval_example_id, eval_flushes, results, num_processed, current_task>>
    /\ chains_made' = chains_made \cup SessionNameChains("conc")
    /\ UNCHANGED <<args, seqvars, unitvars>>
    /\ UNCHANGED adaptervars
    /\ UNCHANGED <<chain, chain_calls, in_flight>>

\* the coroutines that hold a permit of the semaphore
InGate == { u \in Units : pc[u] \notin {"pending", "done", "failed"} }

\* the coroutines that hold a tracer of the pool
Holding == { u \in Units : pc[u] \in {"got_tracer", "loop", "invoking", "record", "finally"} }

\* the coroutines suspended in an invocation of the task
InFlight == { u \in Units : pc[u] = "invoking" }

\* SemAcquire that does not wait for a permit
SemAcquire_NoWait(u) ==
    /\ conc_pc \in {"gather", "raised"}
    /\ pc[u] = "pending"
    /\ \A v \in 1..(u - 1) : pc[v] # "pending"
    /\ current_task = 0
    /\ semaphore' = semaphore - 1
    /\ pc' = [pc EXCEPT ![u] = "admitted"]
    /\ current_task' = u
    /\ UNCHANGED <<tracer_queue, tracer_is_none, tracer_example_id, tracer_flushes>>
    /\ UNCHANGED <<tracer, previous_example_ids, outputs, attempt, exc>>
    /\ UNCHANGED <<conc_pc, eval_example_id, eval_flushes, results, num_processed>>
    /\ UNCHANGED <<args, seqvars>>
    /\ UNCHANGED adaptervars
    /\ UNCHANGED invokevars

\* line 270, async with semaphore: acquire. A coroutine that finds the
\* semaphore locked stays suspended until a permit is free. The event loop
\* starts the tasks in the order gather created them, and the semaphore
\* wakes its waiters first come, first served: the coroutines are admitted
\* in the order of the examples. The coroutines exist once gather has created
\* them, and keep running when gather has raised (a run that raised in
\* _get_session_name has no semaphore and no coroutine to admit).
SemAcquire(u) ==
    /\ conc_pc \in {"gather", "raised"}
    /\ pc[u] = "pending"
    /\ \A v \in 1..(u - 1) : pc[v] # "pending"
    /\ current_task = 0
    /\ semaphore > 0
    /\ semaphore' = semaphore - 1
    /\ pc' = [pc EXCEPT ![u] = "admitted"]
    /\ current_task' = u
    /\ UNCHANGED <<tracer_queue, tracer_is_none, tracer_example_id, tracer_flushes>>
    /\ UNCHANGED <<tracer, previous_example_ids, outputs, attempt, exc>>
    /\ UNCHANGED <<conc_pc, eval_example_id, eval_flushes, results, num_processed>>
    /\ UNCHANGED <<args, seqvars>>
    /\ UNCHANGED adaptervars
    /\ UNCHANGED invokevars

\* QueueGet that leaves the tracer in the queue
QueueGet_Peek(u) ==
    /\ pc[u] = "admitted"
    /\ current_task = u
    /\ tracer_queue # <<>>
    /\ tracer' = [tracer EXCEPT ![u] = Head(tracer_queue)]
    /\ tracer_queue' = tracer_queue
    /\ pc' = [pc EXCEPT ![u] = "got_tracer"]
    /\ UNCHANGED <<semaphore, tracer_is_none, tracer_example_id, tracer_flushes>>
    /\ UNCHANGED <<previous_example_ids, outputs, attempt, exc>>
    /\ UNCHANGED concvars
    /\ UNCHANGED <<args, seqvars>>
    /\ UNCHANGED adaptervars
    /\ UNCHANGED invokevars

\* line 271, tracer = await tracer_queue.get(): returns at once when the queue
\* is not empty (with an empty queue the coroutine would wait for a put)
QueueGet(u) ==
    /\ pc[u] = "admitted"
    /\ current_task = u
    /\ tracer_queue # <<>>
    /\ tracer' = [tracer EXCEPT ![u] = Head(tracer_queue)]
    /\ tracer_queue' = Tail(tracer_queue)
    /\ pc' = [pc EXCEPT ![u] = "got_tracer"]
    /\ UNCHANGED <<semaphore, tracer_is_none, tracer_example_id, tracer_flushes>>
    /\ UNCHANGED <<previous_example_ids, outputs, attempt, exc>>
    /\ UNCHANGED concvars
    /\ UNCHANGED <<args, seqvars>>
    /\ UNCHANGED adaptervars
    /\ UNCHANGED invokevars

\* Bind that saves the example_ids and does not set them
Bind_Unset(u) ==
    /\ pc[u] = "got_tracer"
    /\ current_task = u
    /\ previous_example_ids' =
           [previous_example_ids EXCEPT ![u] =
               [tracer |-> IF tracer_is_none THEN NoneId
                           ELSE tracer_example_id[tracer[u]],
                eval |-> eval_example_id]]
    /\ tracer_example_id' = tracer_example_id
    /\ eval_example_id' = eval_example_id
    /\ outputs' = [outputs EXCEPT ![u] = <<>>]
    /\ attempt' = [attempt EXCEPT ![u] = 0]
    /\ pc' = [pc EXCEPT ![u] = "loop"]
    /\ UNCHANGED <<semaphore, tracer_queue, tracer_is_none, tracer_flushes>>
    /\ UNCHANGED <<tracer, exc>>
    /\ UNCHANGED <<conc_pc, eval_flushes, results, num_processed, current_task>>
    /\ UNCHANGED <<args, seqvars>>
    /\ UNCHANGED adaptervars
    /\ UNCHANGED invokevars

\* lines 356-358 and 207-216: callbacks = [tracer, evaluation_handler] without
\* a None tracer; their example_ids are saved and set to example.id
Bind(u) ==
    /\ pc[u] = "got_tracer"
    /\ current_task = u
    /\ previous_example_ids' =
           [previous_example_ids EXCEPT ![u] =
               [tracer |-> IF tracer_is_none THEN NoneId
                           ELSE tracer_example_id[tracer[u]],
                eval |-> eval_example_id]]
    /\ tracer_example_id' =
           IF tracer_is_none THEN tracer_example_id
           ELSE [tracer_example_id EXCEPT ![tracer[u]] = BoundExampleId(examples[u])]
    /\ eval_example_id' = BoundExampleId(examples[u])
    /\ outputs' = [outputs EXCEPT ![u] = <<>>]
    /\ attempt' = [attempt EXCEPT ![u] = 0]
    /\ pc' = [pc EXCEPT ![u] = "loop"]
    /\ UNCHANGED <<semaphore, tracer_queue, tracer_is_none, tracer_flushes>>
    /\ UNCHANGED <<tracer, exc>>
    /\ UNCHANGED <<conc_pc, eval_flushes, results, num_processed, current_task>>
    /\ UNCHANGED <<args, seqvars>>
    /\ UNCHANGED adaptervars
    /\ UNCHANGED invokevars

\* StartAttempt that does not await the attempt before it: the next one
\* starts while it is still in flight
StartAttempt_NoAwait(u) ==
    /\ pc[u] \in {"loop", "invoking"}
    /\ current_task = IF pc[u] = "loop" THEN u ELSE 0
    /\ attempt[u] < num_repetitions
    /\ attempt' = [attempt EXCEPT ![u] = @ + 1]
    /\ pc' = [pc EXCEPT ![u] = "invoking"]
    /\ current_task' = IF Suspends(llm_or_chain_factory) THEN 0 ELSE u
    /\ IF llm_or_chain_factory = "chain_factory"
       THEN LET c == ChainOfAttempt("conc", u, attempt[u] + 1) IN
            /\ chain' = [chain EXCEPT ![u] = c]
            /\ chains_made' = chains_made \cup {c}
            /\ chain_calls' = chain_calls \cup {<<c, <<"conc", u, attempt[u] + 1>>>>}
       ELSE UNCHANGED <<chain, chains_made, chain_calls>>
    /\ in_flight' = in_flight \cup {<<u, attempt[u] + 1>>}
    /\ UNCHANGED poolvars
    /\ UNCHANGED <<tracer, previous_example_ids, outputs, exc>>
    /\ UNCHANGED <<conc_pc, eval_example_id, eval_flushes, results, num_processed>>
    /\ UNCHANGED <<args, seqvars>>
    /\ UNCHANGED adaptervars

\* lines 217-230: the next pass of the loop starts an attempt; the coroutine
\* is suspended in await llm.agenerate / chain.acall
StartAttempt(u) ==
    /\ pc[u] = "loop"
    /\ current_task = u
    /\ attempt[u] < num_repetitions
    /\ attempt' = [attempt EXCEPT ![u] = @ + 1]
    /\ pc' = [pc EXCEPT ![u] = "invoking"]
    /\ current_task' = IF Suspends(llm_or_chain_factory) THEN 0 ELSE u
    /\ IF llm_or_chain_factory = "chain_factory"
       THEN LET c == ChainOfAttempt("conc", u, attempt[u] + 1) IN
            /\ chain' = [chain EXCEPT ![u] = c]
            /\ chains_made' = chains_made \cup {c}
            /\ chain_calls' = chain_calls \cup {<<c, <<"conc", u, attempt[u] + 1>>>>}
       ELSE UNCHANGED <<chain, chains_made, chain_calls>>
    /\ in_flight' = in_flight \cup {<<u, attempt[u] + 1>>}
    /\ UNCHANGED poolvars
    /\ UNCHANGED <<tracer, previous_example_ids, outputs, exc>>
    /\ UNCHANGED <<conc_pc, eval_example_id, eval_flushes, results, num_processed>>
    /\ UNCHANGED <<args, seqvars>>
    /\ UNCHANGED adaptervars

\* FinishAttempt with the try around the loop: the first exception ends it
FinishAttempt_AbortOnError(u) ==
    /\ pc[u] = "invoking"
    /\ current_task = IF Suspends(llm_or_chain_factory) THEN 0 ELSE u
    /\ outputs' = [outputs EXCEPT ![u] =
           AppendOutput(outputs[u], llm_or_chain_factory, u, attempt[u])]
    /\ pc' = [pc EXCEPT ![u] = "loop"]
    /\ current_task' = u
    /\ UNCHANGED poolvars
    /\ attempt' = [attempt EXCEPT ![u] =
           IF Raises(llm_or_chain_factory, u, attempt[u]) THEN num_repetitions ELSE @]
    /\ UNCHANGED <<tracer, previous_example_ids, exc>>
    /\ UNCHANGED <<conc_pc, eval_example_id, eval_flushes, results, num_processed>>
    /\ UNCHANGED <<args, seqvars>>
    /\ UNCHANGED adaptervars
    /\ in_flight' = in_flight \ {<<u, attempt[u]>>}
    /\ UNCHANGED <<chain, chains_made, chain_calls>>

\* lines 231-234: the attempt returns or raises, and its entry is appended
FinishAttempt(u) ==
    /\ pc[u] = "invoking"
    /\ current_task = IF Suspends(llm_or_chain_factory) THEN 0 ELSE u
    /\ outputs' = [outputs EXCEPT ![u] =
           AppendOutput(outputs[u], llm_or_chain_factory, u, attempt[u])]
    /\ pc' = [pc EXCEPT ![u] = "loop"]
    /\ current_task' = u
    /\ UNCHANGED poolvars
    /\ UNCHANGED <<tracer, previous_example_ids, attempt, exc>>
    /\ UNCHANGED <<conc_pc, eval_example_id, eval_flushes, results, num_processed>>
    /\ UNCHANGED <<args, seqvars>>
    /\ UNCHANGED adaptervars
    /\ in_flight' = in_flight \ {<<u, attempt[u]>>}
    /\ UNCHANGED <<chain, chains_made, chain_calls>>

\* lines 235-239: after the loop the saved example_ids are put back
Restore(u) ==
    /\ pc[u] = "loop"
    /\ current_task = u
    /\ attempt[u] >= num_repetitions
    /\ tracer_example_id' =
           IF tracer_is_none THEN tracer_example_id
           ELSE [tracer_example_id EXCEPT ![tracer[u]] =
                    RestoredExampleId(previous_example_ids[u].tracer, @)]
    /\ eval_example_id' =
           RestoredExampleId(previous_example_ids[u].eval, eval_example_id)
    /\ pc' = [pc EXCEPT ![u] = "record"]
    /\ UNCHANGED <<semaphore, tracer_queue, tracer_is_none, tracer_flushes>>
    /\ UNCHANGED <<tracer, previous_example_ids, outputs, attempt, exc>>
    /\ UNCHANGED <<conc_pc, eval_flushes, results, num_processed, current_task>>
    /\ UNCHANGED <<args, seqvars>>
    /\ UNCHANGED adaptervars
    /\ UNCHANGED invokevars

\* Record that stores the batch under the key of the first example
Record_FirstKey(u) ==
    /\ pc[u] = "record"
    /\ current_task = u
    /\ results' = SetItem(results, Str(examples[1]), outputs[u])
    /\ num_processed' = num_processed + 1
    /\ pc' = [pc EXCEPT ![u] = "finally"]
    /\ UNCHANGED poolvars
    /\ UNCHANGED <<tracer, previous_example_ids, outputs, attempt, exc>>
    /\ UNCHANGED <<conc_pc, eval_example_id, eval_flushes, current_task>>
    /\ UNCHANGED <<args, seqvars>>
    /\ UNCHANGED adaptervars
    /\ UNCHANGED invokevars

\* lines 366-367: results[str(example.id)] = result
Record(u) ==
    /\ pc[u] = "record"
    /\ current_task = u
    /\ results' = SetItem(results, Str(examples[u]), outputs[u])
    /\ num_processed' = num_processed + 1
    /\ pc' = [pc EXCEPT ![u] = "finally"]
    /\ UNCHANGED poolvars
    /\ UNCHANGED <<tracer, previous_example_ids, outputs, attempt, exc>>
    /\ UNCHANGED <<conc_pc, eval_example_id, eval_flushes, current_task>>
    /\ UNCHANGED <<args, seqvars>>
    /\ UNCHANGED adaptervars
    /\ UNCHANGED invokevars

\* QueuePut that does not put the tracer back
QueuePut_Drop(u) ==
    /\ pc[u] = "finally"
    /\ current_task = u
    /\ tracer_queue' = tracer_queue
    /\ pc' = [pc EXCEPT ![u] = "release"]
    /\ UNCHANGED <<semaphore, tracer_is_none, tracer_example_id, tracer_flushes>>
    /\ UNCHANGED <<tracer, previous_example_ids, outputs, attempt, exc>>
    /\ UNCHANGED concvars
    /\ UNCHANGED <<args, seqvars>>
    /\ UNCHANGED adaptervars
    /\ UNCHANGED invokevars

\* QueuePut without the finally: the tracer is put back only when
\* process_example has returned
QueuePut_UnlessRaised(u) ==
    /\ pc[u] = "finally"
    /\ current_task = u
    /\ tracer_queue' = IF exc[u] THEN tracer_queue ELSE Append(tracer_queue, tracer[u])
    /\ pc' = [pc EXCEPT ![u] = "release"]
    /\ UNCHANGED <<semaphore, tracer_is_none, tracer_example_id, tracer_flushes>>
    /\ UNCHANGED <<tracer, previous_example_ids, outputs, attempt, exc>>
    /\ UNCHANGED concvars
    /\ UNCHANGED <<args, seqvars>>
    /\ UNCHANGED adaptervars
    /\ UNCHANGED invokevars

\* lines 274-275, finally: tracer_queue.put_nowait(tracer)
QueuePut(u) ==
    /\ pc[u] = "finally"
    /\ current_task = u
    /\ tracer_queue' = Append(tracer_queue, tracer[u])
    /\ pc' = [pc EXCEPT ![u] = "release"]
    /\ UNCHANGED <<semaphore, tracer_is_none, tracer_example_id, tracer_flushes>>
    /\ UNCHANGED <<tracer, previous_example_ids, outputs, attempt, exc>>
    /\ UNCHANGED concvars
    /\ UNCHANGED <<args, seqvars>>
    /\ UNCHANGED adaptervars
    /\ UNCHANGED invokevars

\* SemRelease that does not give the permit back
SemRelease_Leak(u) ==
    /\ pc[u] = "release"
    /\ current_task = u
    /\ semaphore' = semaphore
    /\ pc' = [pc EXCEPT ![u] = IF exc[u] THEN "failed" ELSE "done"]
    /\ current_task' = 0
    /\ UNCHANGED <<tracer_queue, tracer_is_none, tracer_example_id, tracer_flushes>>
    /\ UNCHANGED <<tracer, previous_example_ids, outputs, attempt, exc>>
    /\ UNCHANGED <<conc_pc, eval_example_id, eval_flushes, results, num_processed>>
    /\ UNCHANGED <<args, seqvars>>
    /\ UNCHANGED adaptervars
    /\ UNCHANGED invokevars

\* leaving async with semaphore: release; the coroutine then returns its
\* result, or the exception goes on to the task gather created
SemRelease(u) ==
    /\ pc[u] = "release"
    /\ current_task = u
    /\ semaphore' = semaphore + 1
    /\ pc' = [pc EXCEPT ![u] = IF exc[u] THEN "failed" ELSE "done"]
    /\ current_task' = 0
    /\ UNCHANGED <<tracer_queue, tracer_is_none, tracer_example_id, tracer_flushes>>
    /\ UNCHANGED <<tracer, previous_example_ids, outputs, attempt, exc>>
    /\ UNCHANGED <<conc_pc, eval_example_id, eval_flushes, results, num_processed>>
    /\ UNCHANGED <<args, seqvars>>
    /\ UNCHANGED adaptervars
    /\ UNCHANGED invokevars

\* the number of times slot s is in the queue q
RECURSIVE Occurrences(_, _)
Occurrences(q, s) ==
    IF q = <<>> THEN 0
    ELSE (IF Head(q) = s THEN 1 ELSE 0) + Occurrences(Tail(q), s)

\* GatherReturn that does not wait for the tasks
GatherReturn_Early ==
    /\ conc_pc = "gather"
    /\ current_task = 0
    /\ tracer_flushes' =
           [s \in DOMAIN tracer_flushes |->
               tracer_flushes[s] +
               (IF tracer_is_none THEN 0 ELSE Occurrences(tracer_queue, s))]
    /\ tracer_queue' = <<>>
    /\ eval_flushes' = eval_flushes + 1
    /\ conc_pc' = "returned"
    /\ UNCHANGED <<semaphore, tracer_is_none, tracer_example_id>>
    /\ UNCHANGED <<eval_example_id, results, num_processed, current_task>>
    /\ UNCHANGED <<args, seqvars, unitvars>>
    /\ UNCHANGED adaptervars
    /\ UNCHANGED invokevars

\* lines 278-288 and 380-381: gather returns once every task is done; the
\* queue is emptied and every tracer in it that is not None is told to
\* wait_for_futures; then the evaluation handler is, and results is returned
GatherReturn ==
    /\ conc_pc = "gather"
    /\ current_task = 0
    /\ \A u \in Units : pc[u] = "done"
    /\ tracer_flushes' =
           [s \in DOMAIN tracer_flushes |->
               tracer_flushes[s] +
               (IF tracer_is_none THEN 0 ELSE Occurrences(tracer_queue, s))]
    /\ tracer_queue' = <<>>
    /\ eval_flushes' = eval_flushes + 1
    /\ conc_pc' = "returned"
    /\ UNCHANGED <<semaphore, tracer_is_none, tracer_example_id>>
    /\ UNCHANGED <<eval_example_id, results, num_processed, current_task>>
    /\ UNCHANGED <<args, seqvars, unitvars>>
    /\ UNCHANGED adaptervars
    /\ UNCHANGED invokevars

Next ==
    \/ SeqStart
    \/ SeqItem
    \/ SeqFinish
    \/ ConcStart
    \/ \E u \in Units : SemAcquire(u)
    \/ \E u \in Units : QueueGet(u)
    \/ \E u \in Units : Bind(u)
    \/ \E u \in Units : StartAttempt(u)
    \/ \E u \in Units : FinishAttempt(u)
    \/ \E u \in Units : Restore(u)
    \/ \E u \in Units : Record(u)
    \/ \E u \in Units : QueuePut(u)
    \/ \E u \in Units : SemRelease(u)
    \/ GatherReturn

Spec == Init /\ [][Next]_vars

\* ------------------------------------------- faults outside the invokers
\* lines 366-373 with verbose set, when print raises (a closed or broken
\* stdout): the entry is stored and counted, and the exception leaves
\* process_example
RecordRaise(u) ==
    /\ pc[u] = "record"
    /\ current_task = u
    /\ results' = SetItem(results, Str(examples[u]), outputs[u])
    /\ num_processed' = num_processed + 1
    /\ exc' = [exc EXCEPT ![u] = TRUE]
    /\ pc' = [pc EXCEPT ![u] = "finally"]
    /\ UNCHANGED poolvars
    /\ UNCHANGED <<tracer, previous_example_ids, outputs, attempt>>
    /\ UNCHANGED <<conc_pc, eval_example_id, eval_flushes, current_task>>
    /\ UNCHANGED <<args, seqvars>>
    /\ UNCHANGED adaptervars
    /\ UNCHANGED invokevars

\* lines 278-280 and 375-379: gather (return_exceptions is not set) raises
\* the exception of the first task that failed, nothing catches it and
\* arun_on_examples raises; the other tasks are not cancelled
GatherRaise ==
    /\ conc_pc = "gather"
    /\ current_task = 0
    /\ \E u \in Units : pc[u] = "failed"
    /\ conc_pc' = "raised"
    /\ UNCHANGED <<eval_example_id, eval_flushes, results, num_processed, current_task>>
    /\ UNCHANGED <<args, seqvars, poolvars, unitvars>>
    /\ UNCHANGED adaptervars
    /\ UNCHANGED invokevars

\* lines 525-533 with verbose set, when print raises: run_llm_or_chain has
\* returned, the entry is not stored and run_on_examples raises
SeqPrintRaise ==
    /\ seq_pc = "loop"
    /\ seq_i < Len(examples)
    /\ seq_tracer_example_id' =
           run_llm_or_chain_example_id(seq_tracer_example_id, examples[seq_i + 1])
    /\ seq_eval_example_id' =
           run_llm_or_chain_example_id(seq_eval_example_id, examples[seq_i + 1])
    /\ seq_pc' = "raised"
    /\ LET calls == run_llm_or_chain_calls(llm_or_chain_factory, seq_i + 1,
                                           num_repetitions) IN
        /\ chain_calls' = chain_calls \cup calls
        /\ chains_made' = chains_made \cup { c[1] : c \in calls }
    /\ UNCHANGED <<seq_i, seq_results, seq_flushes>>
    /\ UNCHANGED <<args, poolvars, unitvars, concvars>>
    /\ UNCHANGED adaptervars
    /\ UNCHANGED <<chain, in_flight>>

NextFault ==
    \/ Next
    \/ \E u \in Units : RecordRaise(u)
    \/ GatherRaise
    \/ SeqPrintRaise

\* the runs in which print may raise
SpecFault == Init /\ [][NextFault]_vars

\* ---------------------------------------------------------------- fairness
\* The event loop keeps running: as long as a coroutine is ready to be
\* resumed, or an invocation of the task can end, one of them takes a step.
\* Every run takes finitely many steps, so this is all the scheduling the
\* run needs.
Fairness == WF_vars(Next)

FairSpec == Spec /\ Fairness

\* the runs in which print may raise, under the same scheduling
FairSpecFault == SpecFault /\ Fairness

\* ------------------------------ the input adapter and the model invokers
\* One call of _get_prompts, _get_messages, run_llm or _arun_llm, on every
\* record of inputs, kind of model, callbacks and tags.
LanguageModels == { kind \in TaskKinds : IsBaseLanguageModel(kind) }

AdapterInit ==
    /\ examples = <<>>
    /\ llm_or_chain_factory = "BaseLLM"
    /\ concurrency_level = 1
    /\ num_repetitions = 0
    /\ session_name = "s"
    /\ fails = {}
    /\ NotStarted
    /\ llm \in LanguageModels
    /\ inputs \in InputRecords
    /\ callbacks \in {"None", "callbacks"}
    /\ tags \in {"None", "tags"}
    /\ generate_raises \in BOOLEAN
    /\ called = ""
    /\ outcome = Outcome("", NoValue, <<>>)

Call_get_prompts ==
    /\ called = ""
    /\ called' = "_get_prompts"
    /\ outcome' = LET r == _get_prompts(inputs) IN Outcome(r.raised, r.value, <<>>)
    /\ UNCHANGED <<llm, inputs, callbacks, tags, generate_raises>>
    /\ UNCHANGED <<args, seqvars, poolvars, unitvars, concvars, invokevars>>

Call_get_messages ==
    /\ called = ""
    /\ called' = "_get_messages"
    /\ outcome' = LET r == _get_messages(inputs) IN Outcome(r.raised, r.value, <<>>)
    /\ UNCHANGED <<llm, inputs, callbacks, tags, generate_raises>>
    /\ UNCHANGED <<args, seqvars, poolvars, unitvars, concvars, invokevars>>

Call_run_llm ==
    /\ called = ""
    /\ called' = "run_llm"
    /\ outcome' = run_llm(llm, inputs, callbacks, tags, generate_raises)
    /\ UNCHANGED <<llm, inputs, callbacks, tags, generate_raises>>
    /\ UNCHANGED <<args, seqvars, poolvars, unitvars, concvars, invokevars>>

Call_arun_llm ==
    /\ called = ""
    /\ called' = "_arun_llm"
    /\ outcome' = _arun_llm(llm, inputs, tags, callbacks, generate_raises)
    /\ UNCHANGED <<llm, inputs, callbacks, tags, generate_raises>>
    /\ UNCHANGED <<args, seqvars, poolvars, unitvars, concvars, invokevars>>

AdapterNext ==
    \/ Call_get_prompts
    \/ Call_get_messages
    \/ Call_run_llm
    \/ Call_arun_llm

AdapterSpec == AdapterInit /\ [][AdapterNext]_vars

\* ================================================================ claims
IsErrorRecord(r) == "Error" \in DOMAIN r

\* the keys a complete results map has: one per example
ExpectedKeys == { Str(examples[u]) : u \in Units }

\* what attempt k on example u leaves in its batch: its own outcome, whatever
\* the other attempts and the other examples did
OwnOutcome(u, k) ==
    IF llm_or_chain_factory = "other_lm" THEN [Error |-> "Unsupported LLM type"]
    ELSE IF llm_or_chain_factory = "not_callable" THEN [Error |-> "object is not callable"]
    ELSE IF <<u, k>> \in fails THEN [Error |-> "task failed"]
    ELSE [Output |-> <<u, k>>]

\* C1: in a concurrent run the coroutines inside the semaphore, and so the
\* invocations of the task in flight, are never more than concurrency_level.
C1_ConcurrencyBound ==
    /\ Cardinality(InGate) <= concurrency_level
    /\ Cardinality(InFlight) <= concurrency_level

\* the gate is full of invocations in flight while another coroutine waits
C1_GateFull ==
    /\ Cardinality(InFlight) = concurrency_level
    /\ \E u \in Units : pc[u] = "pending"

\* C2: when a run returns on examples with pairwise distinct ids, the keys
\* of its results map are exactly the string forms of the ids, one per
\* example: len(results) == len(examples).
C2_OneKeyPerItem ==
    DistinctIds =>
        /\ conc_pc = "returned" =>
             /\ DOMAIN results = ExpectedKeys
             /\ Cardinality(DOMAIN results) = Len(examples)
        /\ seq_pc = "returned" =>
             /\ DOMAIN seq_results = ExpectedKeys
             /\ Cardinality(DOMAIN seq_results) = Len(examples)

\* both runs have returned on two examples with different ids
C2_BothReturned ==
    /\ conc_pc = "returned"
    /\ seq_pc = "returned"
    /\ Len(examples) = MaxItems
    /\ DistinctIds

\* C3: every batch stored in a results map has exactly num_repetitions
\* entries (zero included), whichever attempts raised.
C3_BatchLength ==
    /\ \A key \in DOMAIN results : Len(results[key]) = num_repetitions
    /\ \A key \in DOMAIN seq_results : Len(seq_results[key]) = num_repetitions

\* a stored batch of the concurrent run holds an ErrorRecord and an output
C3_MixedBatch ==
    \E key \in DOMAIN results :
        /\ \E j \in 1..Len(results[key]) : IsErrorRecord(results[key][j])
        /\ \E j \in 1..Len(results[key]) : ~IsErrorRecord(results[key][j])

\* C4: every entry of every stored batch is the outcome of its own attempt:
\* {"Error": message} where the attempt raised, the output where it did not,
\* for the attempts after a failed one and for the other examples alike; and
\* an attempt that raises makes no coroutine fail and no run raise (a run
\* raises only where _get_session_name does, before the first example).
C4_FailureIsolation ==
    /\ DistinctIds =>
          \A u \in Units :
             /\ Str(examples[u]) \in DOMAIN results =>
                    results[Str(examples[u])] =
                        [k \in 1..num_repetitions |-> OwnOutcome(u, k)]
             /\ Str(examples[u]) \in DOMAIN seq_results =>
                    seq_results[Str(examples[u])] =
                        [k \in 1..num_repetitions |-> OwnOutcome(u, k)]
    /\ \A u \in Units : pc[u] # "failed"
    /\ conc_pc = "raised" => SessionNameRaises
    /\ seq_pc = "raised" => SessionNameRaises

\* the concurrent run has returned after the first of two attempts on the
\* first of two examples raised
C4_FirstAttemptFailed ==
    /\ conc_pc = "returned"
    /\ Supported(llm_or_chain_factory)
    /\ DistinctIds
    /\ Len(examples) = MaxItems
    /\ num_repetitions = MaxReps
    /\ <<1, 1>> \in fails

\* C5: when a coroutine has put its tracer back in the queue, the tracer's
\* example_id is the one saved before it was bound, which is the one the
\* tracer was created with; the tracer of the sequential run has that
\* example_id whenever run_llm_or_chain is not running.
C5_BindingRestored ==
    /\ \A u \in Units :
         (pc[u] = "release" /\ ~tracer_is_none) =>
             /\ tracer_example_id[tracer[u]] = previous_example_ids[u].tracer
             /\ tracer_example_id[tracer[u]] = NoneId
    /\ \A j \in 1..Len(tracer_queue) : tracer_example_id[tracer_queue[j]] = NoneId
    /\ seq_tracer_example_id = NoneId

\* a coroutine with an attempt that raised has just put its tracer back
C5_PutBackAfterFailure ==
    \E u \in Units :
        /\ pc[u] = "release"
        /\ ~tracer_is_none
        /\ \E k \in 1..num_repetitions : <<u, k>> \in fails

\* C6: while the concurrent run is under way, each of the concurrency_level
\* tracers is either once in the queue or held by exactly one coroutine.
C6_SlotConservation ==
    conc_pc = "gather" =>
        /\ Len(tracer_queue) + Cardinality(Holding) = concurrency_level
        /\ \A s \in 1..concurrency_level :
             Occurrences(tracer_queue, s)
                 + Cardinality({ u \in Holding : tracer[u] = s }) = 1
        /\ \A u \in Holding : tracer[u] \in 1..concurrency_level

\* two coroutines hold a tracer each
C6_TwoHolders == conc_pc = "gather" /\ Cardinality(Holding) >= 2

\* C7: under fair scheduling, a concurrent run that has started its
\* coroutines ends with every coroutine done and the run returned.
C7_Termination ==
    (conc_pc = "gather") ~> (conc_pc = "returned" /\ \A u \in Units : pc[u] = "done")

\* the run has returned although there were more examples than permits
C7_ReturnedAfterWaiting ==
    /\ conc_pc = "returned"
    /\ Len(examples) > concurrency_level
    /\ num_repetitions > 0

\* C8: on examples with pairwise distinct ids, once both runs have returned
\* their results maps are equal.
C8_SeqConcEquivalence ==
    (DistinctIds /\ seq_pc = "returned" /\ conc_pc = "returned") =>
        seq_results = results

\* both runs have returned batches that hold an ErrorRecord, with two
\* coroutines admitted at a time
C8_BothReturnedWithError ==
    /\ seq_pc = "returned"
    /\ conc_pc = "returned"
    /\ DistinctIds
    /\ Len(examples) = MaxItems
    /\ concurrency_level >= 2
    /\ fails # {}

\* C9 (as claimed): an exception that leaves a coroutine outside the
\* per-attempt catch is caught: the run does not raise, and the batch of the
\* example holds only ErrorRecords.
C9_UnitFaultCaught ==
    \A u \in Units :
        pc[u] = "failed" =>
            /\ conc_pc # "raised"
            /\ \A j \in 1..Len(results[Str(examples[u])]) :
                   IsErrorRecord(results[Str(examples[u])][j])

\* C10 (as claimed): a task that is neither a BaseLLM, a BaseChatModel nor a
\* chain factory makes both runs raise before any example is processed.
C10_UnsupportedTaskFatal ==
    ~Supported(llm_or_chain_factory) =>
        /\ conc_pc \notin {"gather", "returned"}
        /\ seq_pc \notin {"loop", "returned"}
        /\ results = EmptyMap
        /\ seq_results = EmptyMap

\* C11: the concurrent run has returned only with every coroutine done, every
\* tracer of the pool that is not None told to wait_for_futures exactly once
\* and the evaluation handler told once; before that nothing is flushed. The
\* sequential run tells its tracer and its handler once each, after the last
\* example and not before.
C11_DrainBeforeReturn ==
    /\ conc_pc = "returned" =>
         /\ \A u \in Units : pc[u] = "done"
         /\ \A s \in 1..concurrency_level :
                tracer_flushes[s] = IF tracer_is_none THEN 0 ELSE 1
         /\ eval_flushes = 1
    /\ conc_pc # "returned" =>
         /\ \A s \in 1..concurrency_level : tracer_flushes[s] = 0
         /\ eval_flushes = 0
    /\ seq_pc = "returned" => (seq_flushes = <<1, 1>> /\ seq_i = Len(examples))
    /\ seq_pc # "returned" => seq_flushes = <<0, 0>>

\* the concurrent run has returned with two tracers and two examples
C11_ReturnedWithTracers ==
    /\ conc_pc = "returned"
    /\ ~tracer_is_none
    /\ concurrency_level = MaxConc
    /\ Len(examples) = MaxItems
    /\ num_repetitions > 0

\* C12: with a chain factory as the task, every attempt that has started, in
\* either run, has invoked exactly one chain, a chain the factory made within
\* that same attempt, and no chain has been invoked by two attempts. A
\* language model is invoked directly: no chain is made for an attempt.
C12_FreshChainPerAttempt ==
    IF llm_or_chain_factory # "chain_factory" THEN chain_calls = {}
    ELSE
        /\ \A c \in chain_calls : c[1] = NewChain(c[2][1], c[2][2], c[2][3])
                                    /\ c[1] \in chains_made
        /\ Cardinality({ c[1] : c \in chain_calls }) = Cardinality(chain_calls)
        /\ \A u \in Units : \A k \in 1..attempt[u] :
               <<NewChain("conc", u, k), <<"conc", u, k>>>> \in chain_calls
        /\ \A i \in 1..seq_i : \A k \in 1..num_repetitions :
               <<NewChain("seq", i, k), <<"seq", i, k>>>> \in chain_calls
        /\ \A u \in Units : attempt[u] > 0 =>
               chain[u] = NewChain("conc", u, attempt[u])

C12_ChainsOfTwoAttempts ==
    /\ llm_or_chain_factory = "chain_factory"
    /\ conc_pc = "returned"
    /\ num_repetitions = MaxReps
    /\ Len(examples) = MaxItems
    /\ Cardinality(chain_calls) = 2 * MaxItems * MaxReps
    /\ fails # {}

\* C13: a batch is in the order of the attempts. While a coroutine runs its
\* loop, outputs holds one entry per finished attempt and entry k is the
\* outcome of attempt k; the batch stored under the key of an example is that
\* list, as built, of the coroutine that stored last under the key, and in the
\* sequential run entry k of a stored batch is the outcome of attempt k on the
\* last example with that key.
C13_BatchInAttemptOrder ==
    /\ \A u \in Units :
          /\ Len(outputs[u]) = attempt[u] - (IF pc[u] = "invoking" THEN 1 ELSE 0)
          /\ \A k \in 1..Len(outputs[u]) : outputs[u][k] = OwnOutcome(u, k)
          /\ pc[u] \in {"finally", "release", "done", "failed"} =>
                \E v \in Units :
                   /\ examples[v] = examples[u]
                   /\ pc[v] \in {"finally", "release", "done", "failed"}
                   /\ results[Str(examples[u])] = outputs[v]
    /\ \A i \in 1..seq_i :
          \E h \in i..seq_i :
             /\ examples[h] = examples[i]
             /\ \A k \in 1..num_repetitions :
                    seq_results[Str(examples[i])][k] = OwnOutcome(h, k)

\* two repetitions at concurrency 2: the first attempt on the second example
\* raised, and its batch is the ErrorRecord followed by the output
C13_ErrorThenOutput ==
    /\ conc_pc = "returned"
    /\ concurrency_level = 2
    /\ num_repetitions = 2
    /\ Len(examples) = MaxItems
    /\ DistinctIds
    /\ fails = {<<2, 1>>}
    /\ results[Str(examples[2])] = <<[Error |-> "task failed"], [Output |-> <<2, 2>>]>>
    /\ seq_results[Str(examples[2])] = results[Str(examples[2])]

\* C18: whenever a coroutine holds a permit of the semaphore and has not yet
\* taken a tracer, the queue of tracers is not empty: tracer_queue.get()
\* returns without waiting.
C18_SlotReadyAfterAdmission ==
    \A u \in Units : pc[u] = "admitted" => tracer_queue # <<>>

\* a coroutine has just been admitted while another one holds a tracer
C18_AdmittedBesideHolder ==
    \E u, v \in Units :
        /\ pc[u] = "admitted"
        /\ v \in Holding
        /\ Len(tracer_queue) = concurrency_level - 1

\* the tracer of coroutine u is bound to its example
BoundToOwnExample(u) ==
    tracer_is_none \/ tracer_example_id[tracer[u]] = BoundExampleId(examples[u])

\* the steps of a coroutine, in the order it takes them
StepOrder ==
    {<<"pending", "admitted">>, <<"admitted", "got_tracer">>,
     <<"got_tracer", "loop">>, <<"loop", "invoking">>, <<"invoking", "loop">>,
     <<"loop", "record">>, <<"record", "finally">>, <<"finally", "release">>,
     <<"release", "done">>, <<"release", "failed">>}

\* C19: every coroutine, whether or not its attempts or its recording raise,
\* takes its steps in this order: permit acquired, tracer taken from the queue,
\* tracer bound to the example, the attempts (each while the tracer is held
\* and bound), the saved example_id put back after the last attempt, tracer
\* put back in the queue, permit released. The tracer is not bound to the
\* example when it is put back, and the coroutine holds no tracer when the
\* permit is released.
C19_ReleaseOrdering ==
    [][\A u \in Units :
          pc'[u] # pc[u] =>
            /\ <<pc[u], pc'[u]>> \in StepOrder
            /\ pc'[u] = "admitted" =>
                   semaphore' = semaphore - 1 /\ tracer_queue' = tracer_queue
            /\ pc'[u] = "got_tracer" =>
                   /\ tracer_queue = <<tracer'[u]>> \o tracer_queue'
                   /\ semaphore' = semaphore
            /\ pc[u] = "got_tracer" => BoundToOwnExample(u)'
            /\ pc'[u] = "invoking" =>
                   /\ BoundToOwnExample(u)
                   /\ u \in Holding
                   /\ Occurrences(tracer_queue, tracer[u]) = 0
            /\ pc'[u] = "record" =>
                   /\ attempt[u] = num_repetitions
                   /\ in_flight = in_flight' /\ \A k \in 1..MaxReps : <<u, k>> \notin in_flight
                   /\ tracer_is_none \/
                         tracer_example_id'[tracer[u]] = previous_example_ids[u].tracer
            /\ pc'[u] = "release" =>
                   /\ tracer_queue' = Append(tracer_queue, tracer[u])
                   /\ tracer_is_none \/
                         tracer_example_id[tracer[u]] # BoundExampleId(examples[u])
                   /\ semaphore' = semaphore
            /\ pc[u] = "release" =>
                   /\ semaphore' = semaphore + 1
                   /\ u \notin Holding
                   /\ Occurrences(tracer_queue, tracer[u]) = 1
      ]_vars

\* a coroutine whose recording raised, and one with an attempt that raised,
\* have gone through every step
C19_ReleasedAfterFailure ==
    /\ ~tracer_is_none
    /\ \E u \in Units : pc[u] = "failed"
    /\ \E u \in Units : pc[u] = "done" /\ \E k \in 1..num_repetitions : <<u, k>> \in fails

\* C20: at no time are two attempts on the same example in flight: an attempt
\* is in flight only when every earlier attempt on its example has appended
\* its entry; attempts on different examples are in flight together, never
\* more than concurrency_level of them.
C20_RepetitionsSequential ==
    /\ \A a, b \in in_flight : a[1] = b[1] => a = b
    /\ \A a \in in_flight :
          /\ pc[a[1]] = "invoking"
          /\ attempt[a[1]] = a[2]
          /\ Len(outputs[a[1]]) = a[2] - 1
    /\ \A u \in Units : pc[u] = "invoking" => <<u, attempt[u]>> \in in_flight
    /\ Cardinality(in_flight) <= concurrency_level

\* the second attempt on one example is in flight together with an attempt
\* on another example
C20_TwoExamplesInFlight ==
    \E a, b \in in_flight : a[1] # b[1] /\ a[2] = 2

\* the call has raised InputFormatError / has returned value
FailsWithFormatError == outcome.raised = "InputFormatError"
Yields(value) == outcome.raised = "" /\ outcome.value = value

\* the record resolves as prompts / as messages
ResolvesAsPrompts == _get_prompts(inputs).raised = ""
ResolvesAsMessages == _get_messages(inputs).raised = ""

\* the input the model is to be given: the record resolved in the mode of the
\* model, or else in the other mode and converted
ResolvedInput ==
    IF llm = "BaseLLM"
    THEN IF ResolvesAsPrompts THEN _get_prompts(inputs).value
         ELSE BufferStrings(_get_messages(inputs).value)
    ELSE IF ResolvesAsMessages THEN _get_messages(inputs).value
         ELSE ConvertedMessages(_get_prompts(inputs).value)

\* C14: every call of run_llm and of _arun_llm on a BaseLLM or BaseChatModel
\* whose record resolves, in the mode of the model or in the other one, calls
\* generate / agenerate exactly once, with the resolved input, the tags and
\* the callbacks of the caller.
C14_GenerateOnceWithTagsAndCallbacks ==
    (/\ called \in {"run_llm", "_arun_llm"}
     /\ Supported(llm)
     /\ ResolvesAsPrompts \/ ResolvesAsMessages)
    => /\ Len(outcome.calls) = 1
       /\ outcome.calls[1].input = ResolvedInput
       /\ outcome.calls[1].tags = tags
       /\ outcome.calls[1].callbacks = callbacks

\* C15 as claimed: no call of run_llm or _arun_llm raises InputFormatError,
\* whatever the record.
C15_FormatErrorNeverEscapes ==
    called \in {"run_llm", "_arun_llm"} => ~FailsWithFormatError

\* C15: the InputFormatError of the resolution in the mode of the model is
\* always caught inside run_llm / _arun_llm, and the record is resolved in the
\* other mode; the InputFormatError of that second resolution is not caught.
\* The call raises InputFormatError exactly on the records that resolve in
\* neither mode, without having called generate, and on every other record
\* generate is called once.
C15_FormatErrorOnlyFromFallback ==
    (called \in {"run_llm", "_arun_llm"} /\ Supported(llm)) =>
        /\ FailsWithFormatError <=> (~ResolvesAsPrompts /\ ~ResolvesAsMessages)
        /\ FailsWithFormatError => outcome.calls = <<>>
        /\ ~FailsWithFormatError =>
              /\ Len(outcome.calls) = 1
              /\ outcome.raised = IF generate_raises THEN "Exception" ELSE ""

\* _get_prompts raised InputFormatError on the record of a BaseLLM, the
\* record resolved as messages and _arun_llm returned
C15_FallbackCaught ==
    /\ called = "_arun_llm"
    /\ llm = "BaseLLM"
    /\ ~ResolvesAsPrompts
    /\ ResolvesAsMessages
    /\ outcome.raised = ""
    /\ Len(outcome.calls) = 1

\* C16: _get_prompts raises InputFormatError on the empty record; with a
\* "prompt" field it returns the list of that one value when it is a str and
\* raises otherwise, whatever "prompts" holds; without "prompt" and with
\* "prompts" it returns that value when it is a list of str and raises
\* otherwise; without both, a record of one field gives [value] for a str,
\* the value for a list of str, and raises for anything else; every other
\* record raises. It raises nothing but InputFormatError.
C16_GetPrompts ==
    called = "_get_prompts" =>
        LET keys == DOMAIN inputs IN
        /\ outcome.raised \in {"", "InputFormatError"}
        /\ keys = {} => FailsWithFormatError
        /\ "prompt" \in keys =>
              /\ IsStr(inputs["prompt"]) => Yields(PyList(<<inputs["prompt"]>>))
              /\ ~IsStr(inputs["prompt"]) => FailsWithFormatError
        /\ ("prompt" \notin keys /\ "prompts" \in keys) =>
              /\ IsListOf(inputs["prompts"], "str") => Yields(inputs["prompts"])
              /\ ~IsListOf(inputs["prompts"], "str") => FailsWithFormatError
        /\ ("prompt" \notin keys /\ "prompts" \notin keys) =>
              /\ Cardinality(keys) = 1 =>
                    \A key \in keys :
                       /\ IsStr(inputs[key]) => Yields(PyList(<<inputs[key]>>))
                       /\ IsListOf(inputs[key], "str") => Yields(inputs[key])
                       /\ (~IsStr(inputs[key]) /\ ~IsListOf(inputs[key], "str"))
                             => FailsWithFormatError
              /\ Cardinality(keys) # 1 => FailsWithFormatError

\* "prompt" holds a str and "prompts" a list of str: "prompt" is returned
C16_PromptBeforePrompts ==
    /\ called = "_get_prompts"
    /\ DOMAIN inputs = {"prompt", "prompts"}
    /\ IsStr(inputs["prompt"])
    /\ IsListOf(inputs["prompts"], "str")
    /\ inputs["prompts"].items # <<>>
    /\ outcome.value = PyList(<<inputs["prompt"]>>)

\* the message sequence made of a list of message dicts: one message per
\* dict, with its role and its content
IsSequenceOf(sequence, dicts) ==
    /\ IsList(sequence)
    /\ Len(sequence.items) = Len(dicts.items)
    /\ \A j \in 1..Len(dicts.items) :
          /\ sequence.items[j].type = "message"
          /\ sequence.items[j].role = dicts.items[j].role
          /\ sequence.items[j].text = dicts.items[j].text

\* C17: _get_messages raises InputFormatError on the empty record and on a
\* record of several fields without "messages"; otherwise its source is the
\* "messages" field, or else the value of the one field. A source that is a
\* list of message dicts gives one message sequence, with one message per
\* dict; a list of lists gives one message sequence per inner list; any other
\* source raises InputFormatError.
C17_GetMessages ==
    called = "_get_messages" =>
        LET keys == DOMAIN inputs IN
        /\ outcome.raised \in {"", "InputFormatError"}
        /\ keys = {} => FailsWithFormatError
        /\ ("messages" \notin keys /\ Cardinality(keys) > 1) => FailsWithFormatError
        /\ \A key \in keys :
              (key = "messages" \/ ("messages" \notin keys /\ keys = {key})) =>
                 LET source == inputs[key] IN
                 /\ IsListOf(source, "dict") =>
                       /\ outcome.raised = ""
                       /\ Len(outcome.value.items) = 1
                       /\ IsSequenceOf(outcome.value.items[1], source)
                 /\ (IsListOf(source, "list") /\ ~IsListOf(source, "dict")) =>
                       /\ outcome.raised = ""
                       /\ Len(outcome.value.items) = Len(source.items)
                       /\ \A j \in 1..Len(source.items) :
                             IsSequenceOf(outcome.value.items[j], source.items[j])
                 /\ (~IsListOf(source, "dict") /\ ~IsListOf(source, "list")) =>
                       FailsWithFormatError

\* the "messages" field, beside another field, holds a list of two lists of
\* message dicts: two message sequences are returned
C17_MessagesFieldOfTwoBatches ==
    /\ called = "_get_messages"
    /\ Cardinality(DOMAIN inputs) = 2
    /\ "messages" \in DOMAIN inputs
    /\ IsListOf(inputs["messages"], "list")
    /\ Len(inputs["messages"].items) = 2
    /\ outcome.raised = ""
    /\ Len(outcome.value.items) = 2
    /\ Len(outcome.value.items[2].items) = 2

\* C21: in a concurrent run on examples with pairwise distinct ids, every
\* change of the results map is one coroutine storing the batch of its own
\* example, under a key not yet in the map, once the last of its attempts
\* has ended; the entries already in the map stay as they are.
C21_ResultWrittenOnce ==
    [][(DistinctIds /\ results' # results) =>
          \E u \in Units :
             LET key == Str(examples[u]) IN
             /\ pc[u] = "record" /\ pc'[u] = "finally"
             /\ \A v \in Units \ {u} : pc'[v] = pc[v]
             /\ key \notin DOMAIN results
             /\ DOMAIN results' = DOMAIN results \cup {key}
             /\ results'[key] = outputs[u]
             /\ attempt[u] = num_repetitions
             /\ Len(outputs[u]) = num_repetitions
             /\ \A k \in 1..num_repetitions : <<u, k>> \notin in_flight
             /\ \A other \in DOMAIN results : results'[other] = results[other]
      ]_vars

\* both coroutines have stored their batch, the second one while the run
\* is still under way
C21_BothStored ==
    /\ DistinctIds
    /\ conc_pc = "gather"
    /\ Len(examples) = MaxItems
    /\ concurrency_level = MaxConc
    /\ num_repetitions > 0
    /\ DOMAIN results = ExpectedKeys
    /\ \E u \in Units : pc[u] = "finally"

\* C22: in a concurrent run with concurrency_level >= 2, while a coroutine
\* is in an invocation of the task on its example, its tracer and the
\* evaluation handler both have the id of that example as example_id; and
\* when the run has returned, the example_id of the evaluation handler is the
\* one it had before the run.
C22_HandlersBoundWhileInvoking ==
    concurrency_level >= 2 =>
        /\ \A u \in Units :
              pc[u] = "invoking" =>
                 /\ BoundToOwnExample(u)
                 /\ eval_example_id = BoundExampleId(examples[u])
        /\ conc_pc = "returned" => eval_example_id = NoneId

\* the semaphore and the queue of tracers exist: gather has started the
\* coroutines (a run that raised in _get_session_name has neither)
PoolExists == conc_pc = "gather" \/ (conc_pc = "raised" /\ ~SessionNameRaises)

\* every tracer is once in the queue or held by one running coroutine, none by
\* a coroutine that has ended, and every permit is free or held by a running
\* coroutine
PoolAndPermitsWhole ==
    PoolExists =>
        /\ \A s \in 1..concurrency_level :
              Occurrences(tracer_queue, s)
                  + Cardinality({ v \in Holding : tracer[v] = s }) = 1
        /\ semaphore + Cardinality(InGate) = concurrency_level
        /\ \A u \in Units :
              pc[u] = "failed" =>
                 /\ u \notin Holding /\ u \notin InGate
                 /\ tracer[u] \in 1..concurrency_level

\* C23: when process_example raises in a coroutine, the tracer the coroutine
\* held is put back in the queue and its permit is released: in every state
\* each tracer is in the queue or held by a running coroutine and each permit
\* is free or held by a running coroutine, and under fair scheduling, once a
\* coroutine has failed, every other coroutine still gets its turn and ends.
C23_FaultReleasesSlotAndPermit ==
    /\ []PoolAndPermitsWhole
    /\ (\E u \in Units : pc[u] = "failed")
           ~> (\A u \in Units : pc[u] \in {"done", "failed"})

\* one permit, one tracer: the first coroutine has failed and the second one
\* is in an invocation with the tracer the first one held
C23_NextRunsAfterFault ==
    /\ concurrency_level = 1
    /\ ~tracer_is_none
    /\ \E u, v \in Units :
          /\ pc[u] = "failed"
          /\ pc[v] = "invoking"
          /\ tracer[v] = tracer[u]

====
